---- MODULE Spec2Model ----
(***************************************************************************)
(* A model of src/src/lambda/sns_to_glue/app.py: the schema resolver       *)
(* (get_json_schema), the archive validator (validate_data with            *)
(* parse_client_info_metadata) and the Lambda entry point (lambda_handler  *)
(* with update_sts_tokens, the grouping loop and the Glue dispatch loop).  *)
(*                                                                         *)
(* Three specifications share the variables:                               *)
(*   SpecResolve   applies get_json_schema to archive maps and keys,       *)
(*   SpecValidate  applies validate_data to archive objects,               *)
(*   Spec          runs lambda_handler over an event.                      *)
(*                                                                         *)
(* Python values: None is the string "None"; the tri-state flag            *)
(* allowed_app_specific_files is "None", "True" or "False"; a dict that    *)
(* is iterated (messages) is an insertion-ordered sequence of <<key,       *)
(* value>> pairs; a raised exception is a record [raised |-> TRUE, ...].   *)
(***************************************************************************)
EXTENDS Naturals, Sequences, FiniteSets

VARIABLES
    archive_map,        \* the dict get_archive_map returned
    args,               \* SpecResolve: the arguments of get_json_schema
    json_schema_obj,    \* SpecResolve: what get_json_schema returned
    s3,                 \* the bucket: source_key -> archive object or "NoSuchKey"
    web,                \* schema URL -> the schema document, or "unreachable"
    validate_out,       \* SpecValidate: what validate_data returned or raised
    event,              \* Spec: event["Records"], one message per record
    pc,                 \* the position in the operation under way
    idx,                \* Spec: index of the record (or group) being processed
    messages,           \* Spec: messages, indexed by app and study
    sts_tokens,         \* Spec: the credential cache
    validation_result,  \* Spec: validate_data's result for the current record
    sts_calls,          \* Spec: folder ids passed to get_sts_storage_token
    invalid_calls,      \* Spec: record indices passed to mark_as_invalid
    grouped,            \* Spec: record indices that went through the grouping loop
    glue_calls,         \* Spec: calls made on glue_client, in order
    workflow_run        \* Spec: what start_workflow_run returned last

vars == <<archive_map, args, json_schema_obj, s3, web, validate_out, event, pc,
          idx, messages, sts_tokens, validation_result, sts_calls,
          invalid_calls, grouped, glue_calls, workflow_run>>

None == "None"

Bool(b) == IF b THEN "True" ELSE "False"

(***************************************************************************)
(* Bounds of the model.                                                    *)
(***************************************************************************)
MaxEntries == 3     \* file entries in one archive map (over all its lists)
MaxArchive == 2     \* entries in one zipped archive
MaxRecords == 2     \* records in one event

(***************************************************************************)
(* The archive maps that are resolved.  An archive map is assembled from   *)
(* a fixed skeleton (three assessments, three apps, the top-level anyOf)   *)
(* and at most MaxEntries file entries, each placed in one of the          *)
(* skeleton's file lists.  Every entry gets a jsonSchema of its own        *)
(* (get_json_schema only copies these values), so the returned url tells   *)
(* which entry it was read from.  A top-level anyOf entry may lack the     *)
(* jsonSchema key.                                                         *)
(***************************************************************************)
FileNames == {"x.json", "taskData.json"}

AppIds == {"app1", "app2", "app3"}

AssessmentIds == {"A1", "A2"}

Revisions == {1, 2}

UrlName == <<"http://s/1.json", "http://s/2.json", "http://s/3.json",
             "http://s/4.json", "http://s/5.json", "http://s/6.json">>

Urls == {UrlName[i] : i \in 1..Len(UrlName)}

SlotOrder == <<"assessments1", "assessments2", "assessments3",
               "apps1.default", "apps1.anyOf", "apps2.default", "apps2.anyOf",
               "apps3.default", "apps3.anyOf", "anyOf">>

SlotIndex(s) == CHOOSE i \in 1..Len(SlotOrder) : SlotOrder[i] = s

Tokens ==
    [slot : {SlotOrder[i] : i \in 1..Len(SlotOrder)}, filename : FileNames,
     hasSchema : {TRUE}]
    \cup [slot : {"anyOf"}, filename : FileNames, hasSchema : {FALSE}]

TokenSeqs(n) == UNION {[1..k -> Tokens] : k \in 0..n}

\* The order of two entries of different lists is immaterial: keep one order.
Canonical(toks) ==
    \A i \in 1..(Len(toks) - 1) :
        SlotIndex(toks[i].slot) <= SlotIndex(toks[i + 1].slot)

FileEntry(tok, i) ==
    IF tok.hasSchema
    THEN [filename |-> tok.filename, jsonSchema |-> UrlName[i]]
    ELSE [filename |-> tok.filename]

RECURSIVE FilesOf(_, _, _)
FilesOf(toks, slot, i) ==
    IF i > Len(toks) THEN <<>>
    ELSE IF toks[i].slot = slot
         THEN <<FileEntry(toks[i], i)>> \o FilesOf(toks, slot, i + 1)
         ELSE FilesOf(toks, slot, i + 1)

Pair(id, rev) == [assessmentIdentifier |-> id, assessmentRevision |-> rev]

Assessment(id, rev, files) ==
    [assessmentIdentifier |-> id, assessmentRevision |-> rev, files |-> files]

App(appId, assessments, defaultFiles, anyOf) ==
    [appId |-> appId, assessments |-> assessments,
     default |-> [files |-> defaultFiles], anyOf |-> anyOf]

\* Two entries for (A1, 1) with one for (A2, 1) between them; two entries for
\* app1, the first declaring (A1, 1) and the second (A2, 1); one for app2.
Assemble(toks) ==
    [assessments |->
        <<Assessment("A1", 1, FilesOf(toks, "assessments1", 1)),
          Assessment("A2", 1, FilesOf(toks, "assessments2", 1)),
          Assessment("A1", 1, FilesOf(toks, "assessments3", 1))>>,
     apps |->
        <<App("app1", <<Pair("A1", 1)>>,
              FilesOf(toks, "apps1.default", 1), FilesOf(toks, "apps1.anyOf", 1)),
          App("app2", <<Pair("A2", 2), Pair("A1", 1)>>,
              FilesOf(toks, "apps2.default", 1), FilesOf(toks, "apps2.anyOf", 1)),
          App("app1", <<Pair("A2", 1)>>,
              FilesOf(toks, "apps3.default", 1), FilesOf(toks, "apps3.anyOf", 1))>>,
     anyOf |-> FilesOf(toks, "anyOf", 1)]

(***************************************************************************)
(* get_json_schema (app.py 153-206).                                       *)
(***************************************************************************)
ArchiveMapVersion == "v1"    \* os.environ.get("archive_map_version")

\* for file in files: if file["filename"] == file_name:
\*     url = file["jsonSchema"]; break
RECURSIVE ScanFiles(_, _, _, _)
ScanFiles(files, file_name, i, url) ==
    IF i > Len(files) THEN url
    ELSE IF files[i].filename = file_name THEN files[i].jsonSchema
    ELSE ScanFiles(files, file_name, i + 1, url)

SameAssessment(a, assessment_id, assessment_revision) ==
    /\ a.assessmentIdentifier = assessment_id
    /\ a.assessmentRevision = assessment_revision

\* Lines 177-183: the url the assessment loop returns with, None when the
\* loop ends without returning.
RECURSIVE ScanAssessments(_, _, _, _, _)
ScanAssessments(assessments, file_name, assessment_id, assessment_revision, i) ==
    IF i > Len(assessments) THEN None
    ELSE LET found ==
                 IF SameAssessment(assessments[i], assessment_id,
                                   assessment_revision)
                 THEN ScanFiles(assessments[i].files, file_name, 1, None)
                 ELSE None
         IN  IF found # None THEN found
             ELSE ScanAssessments(assessments, file_name, assessment_id,
                                  assessment_revision, i + 1)

\* Lines 186-189.
AllowedAppSpecificFiles(app, assessment_id, assessment_revision) ==
    \E k \in 1..Len(app.assessments) :
        SameAssessment(app.assessments[k], assessment_id, assessment_revision)

\* AppTier without the test of line 191: the app's files are always scanned.
AppTierMutantNoFlagCheck(obj, app, file_name, assessment_id, assessment_revision) ==
    [obj EXCEPT
        !.allowed_app_specific_files =
            Bool(AllowedAppSpecificFiles(app, assessment_id, assessment_revision)),
        !.url = ScanFiles(app.anyOf, file_name, 1,
                          ScanFiles(app.default.files, file_name, 1, obj.url))]

\* Lines 190-199, one matching app: the flag is set, and when it is true the
\* default.files loop and then the anyOf loop run, each assigning url.
AppTier(obj, app, file_name, assessment_id, assessment_revision) ==
    LET allowed == AllowedAppSpecificFiles(app, assessment_id, assessment_revision)
        flagged == [obj EXCEPT !.allowed_app_specific_files = Bool(allowed)]
    IN  IF allowed
        THEN [flagged EXCEPT
                 !.url = ScanFiles(app.anyOf, file_name, 1,
                             ScanFiles(app.default.files, file_name, 1,
                                       flagged.url))]
        ELSE flagged

\* Lines 184-199: the loop over apps has no break, every matching app acts.
RECURSIVE ScanApps(_, _, _, _, _, _, _)
ScanApps(apps, file_name, app_id, assessment_id, assessment_revision, i, obj) ==
    IF i > Len(apps) THEN obj
    ELSE ScanApps(apps, file_name, app_id, assessment_id, assessment_revision,
                  i + 1,
                  IF apps[i].appId = app_id
                  THEN AppTier(obj, apps[i], file_name, assessment_id,
                               assessment_revision)
                  ELSE obj)

\* Lines 202-205.
RECURSIVE ScanAnyOf(_, _, _, _)
ScanAnyOf(files, file_name, i, url) ==
    IF i > Len(files) THEN url
    ELSE IF files[i].filename = file_name /\ "jsonSchema" \in DOMAIN files[i]
         THEN files[i].jsonSchema
         ELSE ScanAnyOf(files, file_name, i + 1, url)

NewJsonSchemaObj ==
    [url |-> None, allowed_app_specific_files |-> None, error |-> None,
     archive_map_version |-> ArchiveMapVersion]

\* get_json_schema with `break` for the `return` of line 183: the
\* assessment's url is kept only until the app tier assigns one.
AssessmentTierMutantNoReturn(map, file_name, app_id, assessment_id, assessment_revision) ==
    LET found == ScanAssessments(map.assessments, file_name, assessment_id,
                                 assessment_revision, 1)
        obj == ScanApps(map.apps, file_name, app_id, assessment_id,
                        assessment_revision, 1,
                        [NewJsonSchemaObj EXCEPT !.url = found])
    IN  [obj EXCEPT !.allowed_app_specific_files = None]

\* Lines 171-206: the return of line 183, else the apps loop, the return of
\* line 201, else the top-level anyOf loop.
get_json_schema(map, file_name, app_id, assessment_id, assessment_revision) ==
    LET found == ScanAssessments(map.assessments, file_name, assessment_id,
                                 assessment_revision, 1)
        obj == ScanApps(map.apps, file_name, app_id, assessment_id,
                        assessment_revision, 1, NewJsonSchemaObj)
    IN  IF found # None THEN [NewJsonSchemaObj EXCEPT !.url = found]
        ELSE IF obj.url # None THEN obj
        ELSE [obj EXCEPT !.url = ScanAnyOf(map.anyOf, file_name, 1, obj.url)]

(***************************************************************************)
(* parse_client_info_metadata (app.py 30-66).  A clientinfo header is      *)
(* either JSON text, [json |-> TRUE, value |-> what json.loads returns],   *)
(* or other text, [json |-> FALSE, fields |-> its comma-separated          *)
(* key=value pieces in order]; a piece with an empty value does not match  *)
(* the pattern "key=[^,]+".                                                *)
(***************************************************************************)
Raise(exc, stage) == [raised |-> TRUE, exc |-> exc, stage |-> stage, value |-> None]

Return(value) == [raised |-> FALSE, exc |-> None, stage |-> None, value |-> value]

\* re.search(pattern, client_info_str): the first piece "key=<one or more
\* characters>"; .group().split("=")[1] is its value.
RECURSIVE Search(_, _, _)
Search(fields, key, i) ==
    IF i > Len(fields) THEN None
    ELSE IF fields[i][1] = key /\ fields[i][2] # ""
         THEN fields[i][2]
         ELSE Search(fields, key, i + 1)

\* The strings int() converts; it raises ValueError on the others.
IsDigits(str) == str \in {"1", "2", "12"}

IntOf(str) == CASE str = "1" -> 1 [] str = "2" -> 2 [] str = "12" -> 12

parse_client_info_metadata(client_info_str) ==
    IF client_info_str.json THEN Return(client_info_str.value)
    ELSE LET app_version == Search(client_info_str.fields, "appVersion", 1)
             os_name == Search(client_info_str.fields, "osName", 1)
         IN  IF app_version = None
                 THEN Raise("TypeError", "parse_client_info_metadata")
             ELSE IF ~IsDigits(app_version)
                 THEN Raise("ValueError", "parse_client_info_metadata")
             ELSE Return([dict |-> TRUE,
                          items |-> [appVersion |-> IntOf(app_version),
                                     osName |-> os_name,
                                     appName |-> "mobile-toolbox"]])

(***************************************************************************)
(* validate_data (app.py 68-150) and validate_against_schema (209-225).    *)
(* A payload is "good" or "bad" JSON, or "text" that json.load rejects; a  *)
(* schema document is "permissive" (any JSON conforms) or "strict" (a bad  *)
(* payload violates it); a URL that cannot be fetched is "unreachable".    *)
(* A path inside the archive is the sequence of its components.            *)
(***************************************************************************)
Basename(json_path) == json_path[Len(json_path)]

validate_against_schema(data, schema) ==
    IF schema = "strict" /\ data = "bad" THEN <<"violation">> ELSE <<>>

SetItem(dict, key, value) ==
    [k \in DOMAIN dict \cup {key} |-> IF k = key THEN value ELSE dict[k]]

\* Lines 141-149: what follows json.load for one entry.
AfterLoad(validation_result_, json_path, file_name, obj, data, schema) ==
    IF json_path = <<"taskData.json">> THEN validation_result_
    ELSE LET all_errors == validate_against_schema(data, schema)
         IN  IF Len(all_errors) > 0
             THEN [validation_result_ EXCEPT
                      !.errors = SetItem(@, file_name,
                                         [obj EXCEPT !.error = all_errors])]
             ELSE validation_result_

\* Lines 122-149: the loop over z.namelist(), from entry i on.
RECURSIVE ValidateContents(_, _, _, _)
ValidateContents(contents, i, map, validation_result_) ==
    IF i > Len(contents) THEN Return(validation_result_)
    ELSE LET json_path == contents[i].path
             file_name == Basename(json_path)
             obj == get_json_schema(map, file_name, validation_result_.appId,
                                    validation_result_.assessmendId,
                                    validation_result_.assessmentRevision)
         IN  IF obj.url = None
                 THEN ValidateContents(contents, i + 1, map, validation_result_)
             ELSE IF web[obj.url] = "unreachable"
                 THEN Raise("ConnectionError", "requests.get")
             ELSE IF contents[i].payload = "text"
                 THEN Raise("JSONDecodeError", "json.load")
             ELSE ValidateContents(contents, i + 1, map,
                      AfterLoad(validation_result_, json_path, file_name, obj,
                                contents[i].payload, web[obj.url]))

validate_data(message_parameters, map, tokens) ==
    IF message_parameters.raw_folder_id \notin DOMAIN tokens
        THEN Raise("KeyError", "sts_tokens")
    ELSE IF ~s3[message_parameters.source_key].exists
        THEN Raise("NoSuchKey", "get_object")
    ELSE LET s3_obj == s3[message_parameters.source_key]
             parsed == parse_client_info_metadata(s3_obj.Metadata.clientinfo)
         IN  IF parsed.raised THEN parsed
             ELSE IF ~parsed.value.dict
                 THEN Raise("TypeError", "client_info[appName]")
             ELSE IF "appName" \notin DOMAIN parsed.value.items
                 THEN Raise("KeyError", "client_info[appName]")
             ELSE ValidateContents(s3_obj.Body, 1, map,
                      [assessmendId |-> s3_obj.Metadata.assessmentid,
                       assessmentRevision |->
                           IntOf(s3_obj.Metadata.assessmentrevision),
                       appId |-> parsed.value.items.appName,
                       recordId |-> s3_obj.Metadata.recordid,
                       errors |-> <<>>])

(***************************************************************************)
(* SpecResolve: get_json_schema applied to every assembled archive map     *)
(* and every key.                                                          *)
(***************************************************************************)
ResolveArgs ==
    [file_name : FileNames, app_id : AppIds, assessment_id : AssessmentIds,
     assessment_revision : Revisions]

NoArgs == [file_name |-> None, app_id |-> None, assessment_id |-> None,
           assessment_revision |-> 0]

NoValidateOut == [raised |-> FALSE, exc |-> None, stage |-> None, value |-> None]

HandlerIdle ==
    /\ event = <<>>
    /\ idx = 0
    /\ messages = <<>>
    /\ sts_tokens = <<>>
    /\ validation_result = None
    /\ sts_calls = <<>>
    /\ invalid_calls = <<>>
    /\ grouped = <<>>
    /\ glue_calls = <<>>
    /\ workflow_run = None

handlerVars == <<event, idx, messages, sts_tokens, validation_result,
                 sts_calls, invalid_calls, grouped, glue_calls, workflow_run>>

InitResolve ==
    /\ \E toks \in TokenSeqs(MaxEntries) :
          /\ Canonical(toks)
          /\ archive_map = Assemble(toks)
    /\ args \in ResolveArgs
    /\ json_schema_obj = NewJsonSchemaObj
    /\ pc = "call"
    /\ s3 = <<>>
    /\ web = <<>>
    /\ validate_out = NoValidateOut
    /\ HandlerIdle

Resolve ==
    /\ pc = "call"
    /\ json_schema_obj' =
          get_json_schema(archive_map, args.file_name, args.app_id,
                          args.assessment_id, args.assessment_revision)
    /\ pc' = "returned"
    /\ UNCHANGED <<archive_map, args, s3, web, validate_out>>
    /\ UNCHANGED handlerVars

NextResolve == Resolve

SpecResolve == InitResolve /\ [][NextResolve]_vars

(***************************************************************************)
(* What the claims about get_json_schema speak of, read off the archive    *)
(* map without running the resolver.                                       *)
(***************************************************************************)
\* <<i, j>>: assessments[i] is for the key's assessment and revision and its
\* files[j] is the key's filename.
AssessmentHits ==
    {p \in (1..Len(archive_map.assessments)) \X (1..Len(UrlName)) :
        /\ archive_map.assessments[p[1]].assessmentIdentifier = args.assessment_id
        /\ archive_map.assessments[p[1]].assessmentRevision = args.assessment_revision
        /\ p[2] <= Len(archive_map.assessments[p[1]].files)
        /\ archive_map.assessments[p[1]].files[p[2]].filename = args.file_name}

FirstAssessmentHit ==
    CHOOSE p \in AssessmentHits :
        \A q \in AssessmentHits :
            p[1] < q[1] \/ (p[1] = q[1] /\ p[2] <= q[2])

\* Indices of the apps entries with the key's appId.
MatchingApps ==
    {k \in 1..Len(archive_map.apps) : archive_map.apps[k].appId = args.app_id}

Declares(k) ==
    \E a \in 1..Len(archive_map.apps[k].assessments) :
        /\ archive_map.apps[k].assessments[a].assessmentIdentifier = args.assessment_id
        /\ archive_map.apps[k].assessments[a].assessmentRevision = args.assessment_revision

Lists(files) == {j \in 1..Len(files) : files[j].filename = args.file_name}

SchemasOf(files) ==
    {files[j].jsonSchema : j \in {n \in Lists(files) : "jsonSchema" \in DOMAIN files[n]}}

FirstListed(files) ==
    files[CHOOSE j \in Lists(files) : \A n \in Lists(files) : j <= n].jsonSchema

AppSchemas(k) ==
    SchemasOf(archive_map.apps[k].default.files)
        \cup SchemasOf(archive_map.apps[k].anyOf)

\* C1: once get_json_schema has returned, if some assessments entry is for the
\* key's assessment and revision and lists the key's filename, the url is the
\* jsonSchema of that listing (the first one in declaration order), whatever
\* the apps and the top-level anyOf declare for the filename.
C1_AssessmentTierDominates ==
    (pc = "returned" /\ AssessmentHits # {}) =>
        json_schema_obj.url =
            archive_map.assessments[FirstAssessmentHit[1]]
                .files[FirstAssessmentHit[2]].jsonSchema

C1_Witness ==
    /\ pc = "returned"
    /\ AssessmentHits # {}
    /\ \E k \in MatchingApps : Declares(k) /\ AppSchemas(k) # {}
    /\ SchemasOf(archive_map.anyOf) # {}

\* C2: once get_json_schema has returned, if the assessment tier missed and the
\* one apps entry with the key's appId declares the assessment and lists the
\* filename in default.files, the url is the jsonSchema of the first such
\* default.files entry.
C2_DefaultFilesBeforeAnyOf ==
    \A k \in MatchingApps :
        (/\ pc = "returned"
         /\ AssessmentHits = {}
         /\ MatchingApps = {k}
         /\ Declares(k)
         /\ Lists(archive_map.apps[k].default.files) # {})
        => json_schema_obj.url = FirstListed(archive_map.apps[k].default.files)

Payloads == {"good", "bad", "text"}

ArchivePaths == {<<"x.json">>, <<"taskData.json">>, <<"data", "taskData.json">>}

ArchiveEntries == [path : ArchivePaths, payload : Payloads]

Archives == UNION {[1..k -> ArchiveEntries] : k \in 0..MaxArchive}

Documents == {"unreachable", "permissive", "strict"}

SchemaUrls == {UrlName[1], UrlName[2]}

TopEntry(filename) == [slot |-> "anyOf", filename |-> filename, hasSchema |-> TRUE]

\* Archive maps that resolve neither, one or both of the file names.
ValidateMaps ==
    {Assemble(<<>>), Assemble(<<TopEntry("x.json")>>),
     Assemble(<<TopEntry("taskData.json")>>),
     Assemble(<<TopEntry("x.json"), TopEntry("taskData.json")>>)}

JsonDict(items) == [json |-> TRUE, value |-> [dict |-> TRUE, items |-> items]]

JsonScalar(n) == [json |-> TRUE, value |-> [dict |-> FALSE, items |-> n]]

Text(fields) == [json |-> FALSE, fields |-> fields]

ClientInfoSamples ==
    <<JsonDict([appName |-> "app2", appVersion |-> 12, osName |-> "iOS"]),
      JsonDict([appVersion |-> 12, osName |-> "iOS"]),
      JsonScalar(12),
      Text(<< <<"appVersion", "12">>, <<"osName", "iOS">> >>),
      Text(<< <<"appName", "app2">>, <<"appVersion", "12">> >>),
      Text(<< <<"appVersion", "beta">>, <<"osName", "iOS">> >>),
      Text(<< <<"appVersion", "">>, <<"osName", "iOS">> >>),
      Text(<< <<"osName", "iOS">> >>),
      Text(<<>>)>>

ArchiveObject(client_info_str, contents) ==
    [exists |-> TRUE,
     Metadata |-> [assessmentid |-> "A1", assessmentrevision |-> "1",
                   clientinfo |-> client_info_str, recordid |-> "r1"],
     Body |-> contents]

NoSuchObject == [exists |-> FALSE]

ValidateParams ==
    [source_bucket |-> "bucket", source_key |-> "k1", raw_folder_id |-> "syn1"]

InitValidate ==
    /\ archive_map \in ValidateMaps
    /\ web \in [SchemaUrls -> Documents]
    /\ \E n \in 1..Len(ClientInfoSamples), contents \in Archives :
          s3 = [k \in {"k1"} |-> ArchiveObject(ClientInfoSamples[n], contents)]
    /\ sts_tokens = [f \in {"syn1"} |-> 1]
    /\ validate_out = NoValidateOut
    /\ pc = "call"
    /\ args = NoArgs
    /\ json_schema_obj = NewJsonSchemaObj
    /\ event = <<>>
    /\ idx = 0
    /\ messages = <<>>
    /\ validation_result = None
    /\ sts_calls = <<>>
    /\ invalid_calls = <<>>
    /\ grouped = <<>>
    /\ glue_calls = <<>>
    /\ workflow_run = None

Validate ==
    /\ pc = "call"
    /\ validate_out' = validate_data(ValidateParams, archive_map, sts_tokens)
    /\ pc' = "returned"
    /\ UNCHANGED <<archive_map, args, json_schema_obj, s3, web>>
    /\ UNCHANGED handlerVars

NextValidate == Validate

SpecValidate == InitValidate /\ [][NextValidate]_vars

\* The header of the validated object names the app: json.loads gives a dict
\* with appName, or the fallback pattern finds an integer appVersion.
Header == parse_client_info_metadata(s3["k1"].Metadata.clientinfo)

HeaderNamesApp ==
    /\ ~Header.raised
    /\ Header.value.dict
    /\ "appName" \in DOMAIN Header.value.items

\* Entry i of the archive has no schema in the archive map.
Unresolved(i) ==
    get_json_schema(archive_map, Basename(s3["k1"].Body[i].path),
                    Header.value.items.appName, "A1", 1).url = None

IsTaskData(i) == Basename(s3["k1"].Body[i].path) = "taskData.json"

\* C4: once validate_data has ended on an archive whose every entry is
\* unresolved or is the task-data file, with every schema document fetchable,
\* it has returned (not raised) a validation result with no errors, whatever
\* the payloads and the paths of the entries.
C4_UnresolvedAndTaskDataAreValid ==
    (/\ pc = "returned"
     /\ HeaderNamesApp
     /\ \A u \in SchemaUrls : web[u] # "unreachable"
     /\ \A i \in 1..Len(s3["k1"].Body) : Unresolved(i) \/ IsTaskData(i))
    => /\ ~validate_out.raised
       /\ DOMAIN validate_out.value.errors = {}

\* C6: once validate_data has ended, it has not raised from reading the
\* clientinfo header, whatever the header is.
C6_ClientInfoNeverRaises ==
    pc = "returned" =>
        ~(/\ validate_out.raised
          /\ validate_out.stage \in {"parse_client_info_metadata",
                                     "client_info[appName]"})

(***************************************************************************)
(* lambda_handler (app.py 256-328) with update_sts_tokens (228-250).       *)
(* messages is a dict of dicts that the dispatch loop iterates: a dict is  *)
(* the sequence of its <<key, value>> items in insertion order.            *)
(***************************************************************************)
RECURSIVE DictFind(_, _, _)
DictFind(dict, key, i) ==
    IF i > Len(dict) THEN 0
    ELSE IF dict[i][1] = key THEN i
    ELSE DictFind(dict, key, i + 1)

DictHas(dict, key) == DictFind(dict, key, 1) # 0

DictGet(dict, key) == dict[DictFind(dict, key, 1)][2]

\* dict[key] = value: in place for a key the dict has, at the end otherwise.
DictSet(dict, key, value) ==
    IF DictHas(dict, key)
    THEN [dict EXCEPT ![DictFind(dict, key, 1)] = <<key, value>>]
    ELSE Append(dict, <<key, value>>)

\* Lines 288-292.
MessageParameters(message) ==
    [source_bucket |-> message.record.s3Bucket,
     source_key |-> message.record.s3Key,
     raw_folder_id |-> message.record.rawFolderId]

\* Line 242 with the cache test left out.
NeedsTokenMutantAlways(synapse_data_folder, tokens) == TRUE

\* Line 242.

NeedsToken(synapse_data_folder, tokens) ==
    synapse_data_folder \notin DOMAIN tokens

\* Line 302 with the test never true.
IsInvalidMutantNever(validation_result_) == FALSE

\* Line 302.

IsInvalid(validation_result_) == DOMAIN validation_result_.errors # {}

\* Lines 309-316 with the append of line 314 replaced by an assignment.
AddToStudyMutantOverwrite(messages_, app, study, message_parameters) ==
    DictSet(messages_, app,
            DictSet(IF DictHas(messages_, app) THEN DictGet(messages_, app)
                    ELSE <<>>,
                    study, <<message_parameters>>))

\* Lines 309-316, one study of the record.
AddToStudy(messages_, app, study, message_parameters) ==
    LET created == IF DictHas(messages_, app) THEN messages_
                   ELSE DictSet(messages_, app, <<<<study, <<>>>>>>)
        of_app == DictGet(created, app)
    IN  IF DictHas(of_app, study)
        THEN DictSet(created, app,
                     DictSet(of_app, study,
                             Append(DictGet(of_app, study), message_parameters)))
        ELSE DictSet(created, app,
                     DictSet(of_app, study, <<message_parameters>>))

\* Lines 308-316: the loop over related_studies, from study i on.
RECURSIVE AddToStudies(_, _, _, _, _)
AddToStudies(messages_, app, related_studies, message_parameters, i) ==
    IF i > Len(related_studies) THEN messages_
    ELSE AddToStudies(
             AddToStudy(messages_, app, related_studies[i], message_parameters),
             app, related_studies, message_parameters, i + 1)

\* Lines 317-318: the (app, study) pairs in the order the loops visit them.
RECURSIVE StudiesOf(_, _, _)
StudiesOf(app, of_app, i) ==
    IF i > Len(of_app) THEN <<>>
    ELSE <<<<app, of_app[i][1]>>>> \o StudiesOf(app, of_app, i + 1)

RECURSIVE Groups(_, _)
Groups(messages_, i) ==
    IF i > Len(messages_) THEN <<>>
    ELSE StudiesOf(messages_[i][1], messages_[i][2], 1) \o Groups(messages_, i + 1)

Namespace == "bridge"    \* os.environ.get('NAMESPACE')

\* Line 319.
WorkflowName(app, study) == <<Namespace, app, study, "S3ToJsonWorkflow">>

\* json.dumps of a list of message_parameters dicts: an array of objects, each
\* the sequence of its members in the order the dict was built.
json_dumps(list) ==
    [array |->
        [i \in 1..Len(list) |->
            <<<<"source_bucket", list[i].source_bucket>>,
              <<"source_key", list[i].source_key>>,
              <<"raw_folder_id", list[i].raw_folder_id>>>>]]

\* Line 327 reading the app's first study instead of the study dispatched.
RunMessagesMutantWholeApp(messages_, app, study) ==
    DictGet(messages_, app)[1][2]

\* Line 327: the messages of the group being dispatched.
RunMessages(messages_, app, study) == DictGet(DictGet(messages_, app), study)

(***************************************************************************)
(* Spec: one invocation of lambda_handler.  The archive map resolves       *)
(* x.json and taskData.json; the bucket holds a conforming archive, a      *)
(* violating one and one whose schema document cannot be fetched, and      *)
(* lacks "missing.zip".                                                    *)
(***************************************************************************)
HandlerMap == Assemble(<<TopEntry("x.json"), TopEntry("taskData.json")>>)

HandlerWeb ==
    [u \in SchemaUrls |-> IF u = UrlName[1] THEN "strict" ELSE "unreachable"]

HandlerInfo == JsonDict([appName |-> "app2", appVersion |-> 12, osName |-> "iOS"])

SourceKeys == {"valid.zip", "invalid.zip", "unfetchable.zip", "missing.zip"}

Bucket ==
    [k \in SourceKeys |->
        CASE k = "valid.zip" ->
                ArchiveObject(HandlerInfo,
                    <<[path |-> <<"x.json">>, payload |-> "good"]>>)
          [] k = "invalid.zip" ->
                ArchiveObject(HandlerInfo,
                    <<[path |-> <<"x.json">>, payload |-> "bad"]>>)
          [] k = "unfetchable.zip" ->
                ArchiveObject(HandlerInfo,
                    <<[path |-> <<"data", "taskData.json">>, payload |-> "good"]>>)
          [] k = "missing.zip" -> NoSuchObject]

EventApps == {"app1", "app2"}

Studies == {"s1", "s2"}

Folders == {"syn1", "syn2"}

StudyRecords == {<<>>, <<"s1">>, <<"s1", "s2">>}

Messages ==
    [record : [s3Bucket : {"bucket"}, s3Key : SourceKeys, rawFolderId : Folders],
     studyRecords : StudyRecords, appId : EventApps]

Events == UNION {[1..k -> Messages] : k \in 0..MaxRecords}

\* Where the loop over event["Records"] goes for record i, and the loop over
\* the groups for group i.
RecordPc(records, messages_, i) ==
    IF i <= Len(records) THEN "update_sts_tokens"
    ELSE IF Groups(messages_, 1) # <<>> THEN "start_workflow_run"
    ELSE "done"

GroupPc(messages_, i) ==
    IF i <= Len(Groups(messages_, 1)) THEN "start_workflow_run" ELSE "done"

Init ==
    /\ event \in Events
    /\ archive_map = HandlerMap
    /\ s3 = Bucket
    /\ web = HandlerWeb
    /\ args = NoArgs
    /\ json_schema_obj = NewJsonSchemaObj
    /\ validate_out = NoValidateOut
    /\ idx = 1
    /\ pc = RecordPc(event, <<>>, 1)
    /\ messages = <<>>
    /\ sts_tokens = <<>>
    /\ validation_result = None
    /\ sts_calls = <<>>
    /\ invalid_calls = <<>>
    /\ grouped = <<>>
    /\ glue_calls = <<>>
    /\ workflow_run = None

fixedVars == <<archive_map, args, json_schema_obj, s3, web, validate_out, event>>

\* Lines 293-296 and 242-250: get_sts_storage_token may raise; nothing in
\* lambda_handler catches it.
UpdateStsTokens ==
    /\ pc = "update_sts_tokens"
    /\ LET folder == MessageParameters(event[idx]).raw_folder_id
       IN  IF NeedsToken(folder, sts_tokens)
           THEN /\ sts_calls' = Append(sts_calls, folder)
                /\ \/ /\ sts_tokens' =
                            SetItem(sts_tokens, folder,
                                    [entity |-> folder,
                                     issued |-> Len(sts_calls) + 1])
                      /\ pc' = "validate_data"
                   \/ /\ pc' = "raised in update_sts_tokens"
                      /\ UNCHANGED sts_tokens
           ELSE /\ pc' = "validate_data"
                /\ UNCHANGED <<sts_tokens, sts_calls>>
    /\ UNCHANGED <<idx, messages, validation_result, invalid_calls, grouped,
                   glue_calls, workflow_run>>
    /\ UNCHANGED fixedVars

\* Lines 297-301: an exception of validate_data leaves lambda_handler.
ValidateData ==
    /\ pc = "validate_data"
    /\ LET out == validate_data(MessageParameters(event[idx]), archive_map,
                                sts_tokens)
       IN  IF out.raised
           THEN /\ pc' = "raised in validate_data"
                /\ UNCHANGED validation_result
           ELSE /\ pc' = "mark_and_group"
                /\ validation_result' = out.value
    /\ UNCHANGED <<idx, messages, sts_tokens, sts_calls, invalid_calls, grouped,
                   glue_calls, workflow_run>>
    /\ UNCHANGED fixedVars

\* Lines 302-316: mark_as_invalid when there are errors, then the grouping
\* loop, then the next record.
MarkAndGroup ==
    /\ pc = "mark_and_group"
    /\ invalid_calls' = IF IsInvalid(validation_result)
                        THEN Append(invalid_calls, idx)
                        ELSE invalid_calls
    /\ messages' = AddToStudies(messages, event[idx].appId,
                                event[idx].studyRecords,
                                MessageParameters(event[idx]), 1)
    /\ grouped' = Append(grouped, idx)
    /\ idx' = IF idx < Len(event) THEN idx + 1 ELSE 1
    /\ pc' = RecordPc(event, messages', idx + 1)
    /\ UNCHANGED <<sts_tokens, validation_result, sts_calls, glue_calls,
                   workflow_run>>
    /\ UNCHANGED fixedVars

\* Lines 319-322.
StartWorkflowRun ==
    /\ pc = "start_workflow_run"
    /\ LET group == Groups(messages, 1)[idx]
           call == [op |-> "start_workflow_run",
                    Name |-> WorkflowName(group[1], group[2])]
       IN  /\ glue_calls' = Append(glue_calls, call)
           /\ \/ /\ workflow_run' = [RunId |-> Len(glue_calls) + 1]
                 /\ pc' = "put_workflow_run_properties"
              \/ /\ pc' = "raised in start_workflow_run"
                 /\ UNCHANGED workflow_run
    /\ UNCHANGED <<idx, messages, sts_tokens, validation_result, sts_calls,
                   invalid_calls, grouped>>
    /\ UNCHANGED fixedVars

\* Lines 323-328.
PutWorkflowRunProperties ==
    /\ pc = "put_workflow_run_properties"
    /\ LET group == Groups(messages, 1)[idx]
           call == [op |-> "put_workflow_run_properties",
                    Name |-> WorkflowName(group[1], group[2]),
                    RunId |-> workflow_run.RunId,
                    RunProperties |->
                        [messages |->
                            json_dumps(RunMessages(messages, group[1], group[2]))]]
       IN  /\ glue_calls' = Append(glue_calls, call)
           /\ \/ /\ idx' = idx + 1
                 /\ pc' = GroupPc(messages, idx + 1)
              \/ /\ pc' = "raised in put_workflow_run_properties"
                 /\ UNCHANGED idx
    /\ UNCHANGED <<messages, sts_tokens, validation_result, sts_calls,
                   invalid_calls, grouped, workflow_run>>
    /\ UNCHANGED fixedVars

Next ==
    \/ UpdateStsTokens
    \/ ValidateData
    \/ MarkAndGroup
    \/ StartWorkflowRun
    \/ PutWorkflowRunProperties

Spec == Init /\ [][Next]_vars

(***************************************************************************)
(* What the claims about lambda_handler speak of, read off the event.      *)
(***************************************************************************)
Range(seq) == {seq[i] : i \in 1..Len(seq)}

\* The trigger payload entry of record j.
RecordMetadata(j) ==
    [source_bucket |-> event[j].record.s3Bucket,
     source_key |-> event[j].record.s3Key,
     raw_folder_id |-> event[j].record.rawFolderId]

\* Records j..n of app a that are associated with study s, in arrival order.
RECURSIVE Arrivals(_, _, _, _)
Arrivals(a, st, j, n) ==
    IF j > n THEN <<>>
    ELSE IF event[j].appId = a /\ st \in Range(event[j].studyRecords)
         THEN <<RecordMetadata(j)>> \o Arrivals(a, st, j + 1, n)
         ELSE Arrivals(a, st, j + 1, n)

\* <<i, k>>: item k of item i of messages is the group of app a and study s.
GroupPlaces(a, st) ==
    {p \in (1..Len(messages)) \X (1..Cardinality(Studies)) :
        /\ messages[p[1]][1] = a
        /\ p[2] <= Len(messages[p[1]][2])
        /\ messages[p[1]][2][p[2]][1] = st}

GroupAt(p) == messages[p[1]][2][p[2]][2]

\* C7: in every state of lambda_handler, for every app and study the group
\* messages[app][study] exists once and is the arrival-order sequence of the
\* records grouped so far that are of that app and associated with that
\* study, and does not exist when there is no such record.
C7_GroupsAreArrivalOrderSubsequences ==
    \A a \in EventApps, st \in Studies :
        LET expected == Arrivals(a, st, 1, Len(grouped))
        IN  IF expected = <<>>
            THEN GroupPlaces(a, st) = {}
            ELSE /\ Cardinality(GroupPlaces(a, st)) = 1
                 /\ \A p \in GroupPlaces(a, st) : GroupAt(p) = expected

\* The example of the specification: rec1 (app1, [s1]) then rec2 (app1, [s1, s2]).
C7_Witness ==
    /\ Len(event) = 2
    /\ Len(grouped) = 2
    /\ event[1].appId = "app1" /\ event[1].studyRecords = <<"s1">>
    /\ event[2].appId = "app1" /\ event[2].studyRecords = <<"s1", "s2">>
    /\ event[1].record # event[2].record
    /\ messages = << <<"app1", << <<"s1", <<RecordMetadata(1), RecordMetadata(2)>> >>,
                                  <<"s2", <<RecordMetadata(2)>> >> >> >> >>

ExpectedGroups ==
    {g \in EventApps \X Studies : Arrivals(g[1], g[2], 1, Len(event)) # <<>>}

Serialized(list) ==
    [array |->
        [i \in 1..Len(list) |->
            << <<"source_bucket", list[i].source_bucket>>,
               <<"source_key", list[i].source_key>>,
               <<"raw_folder_id", list[i].raw_folder_id>> >>]]

\* Positions of the start_workflow_run calls for group g.
Starts(g) ==
    {k \in 1..Len(glue_calls) :
        /\ glue_calls[k].op = "start_workflow_run"
        /\ glue_calls[k].Name = <<Namespace, g[1], g[2], "S3ToJsonWorkflow">>}

\* C8: a Glue call has been issued only if every record of the event has
\* been validated and grouped; and when lambda_handler has ended normally,
\* the Glue calls are, for each (app, study) group, one start_workflow_run
\* immediately followed by one put_workflow_run_properties for that workflow
\* and run, carrying the serialized metadata of that group's records in
\* arrival order, and nothing else.
C8_DispatchAfterGroupingOncePerGroup ==
    /\ glue_calls # <<>> => Len(grouped) = Len(event)
    /\ pc = "done" =>
          /\ Len(glue_calls) = 2 * Cardinality(ExpectedGroups)
          /\ \A g \in ExpectedGroups :
                /\ Cardinality(Starts(g)) = 1
                /\ \A k \in Starts(g) :
                      /\ k < Len(glue_calls)
                      /\ glue_calls[k + 1].op = "put_workflow_run_properties"
                      /\ glue_calls[k + 1].Name = glue_calls[k].Name
                      /\ glue_calls[k + 1].RunId = k
                      /\ glue_calls[k + 1].RunProperties.messages =
                            Serialized(Arrivals(g[1], g[2], 1, Len(event)))

C8_Witness ==
    /\ pc = "done"
    /\ Cardinality(ExpectedGroups) >= 2
    /\ \E g \in ExpectedGroups : Len(Arrivals(g[1], g[2], 1, Len(event))) = 2

\* validate_data finds errors in record j.
HasErrors(j) ==
    LET out == validate_data(RecordMetadata(j), archive_map, [f \in Folders |-> 0])
    IN  ~out.raised /\ DOMAIN out.value.errors # {}

C10_TokenCacheIsReadThrough ==
    /\ [](/\ Cardinality(Range(sts_calls)) = Len(sts_calls)
          /\ DOMAIN sts_tokens \subseteq Range(sts_calls)
          /\ pc = "validate_data" =>
                event[idx].record.rawFolderId \in DOMAIN sts_tokens)
    /\ [][/\ \A f \in DOMAIN sts_tokens :
                f \in DOMAIN sts_tokens' /\ sts_tokens'[f] = sts_tokens[f]
          /\ sts_calls' # sts_calls =>
                \E f \in Folders \ DOMAIN sts_tokens :
                    sts_calls' = Append(sts_calls, f)]_vars

C10_Witness ==
    /\ Len(event) = 2
    /\ pc = "validate_data"
    /\ idx = 2
    /\ event[1].record.rawFolderId = event[2].record.rawFolderId
    /\ Len(sts_calls) = 1

\* C5: when lambda_handler has ended because validate_data raised for one
\* record (the archive object or a schema document could not be fetched),
\* every other record of the event has been validated and grouped.
C5_RecordFailuresAreIsolated ==
    pc = "raised in validate_data" =>
        \A j \in 1..Len(event) : j # idx => j \in Range(grouped)

====
